---- MODULE Spec2Model ----
(***************************************************************************)
(* GenerateGameWidget of randovania/gui/widgets/generate_game_widget.py:   *)
(* the preset tree with its context menu, preset import/delete/export,     *)
(* duplicate and customize, the generate buttons, the generation run       *)
(* executed on the background worker, and persist_layout's history files.  *)
(*                                                                         *)
(* Collaborators whose code is outside the two source files (the preset    *)
(* manager, the preset tree widget, BackgroundTaskMixin and                *)
(* simplified_patcher.generate_layout) are modelled from the written       *)
(* specification; the comments say so at each such definition.             *)
(***************************************************************************)
EXTENDS Integers, Sequences, FiniteSets, TLC

\* ------------------------------------------------------------------ bounds
\* UUIDs are 1..MaxUuid; 0 stands for Python's None.
MaxUuid == 3
\* Width of the seed domain.  The source draws from [0, 2^31]; TLC's integers
\* are 32 bits wide, so the width is scaled down and the draw keeps its shape:
\* random.randint(0, 2^SeedBits), both ends included.
SeedBits == 1
\* Largest value of num_players_spin_box.
MaxPlayers == 2
\* Retry count generate_layout uses when retries is None.
DefaultRetries == 1
\* A progress fraction is k / FracSteps; FracSteps stands for 1.0.
FracSteps == 2
\* Progress updates one generate_layout call emits at most.
MaxUpdates == 2

\* The clock is counted in ticks and stops at MaxClock.
MaxClock == 3

None == 0
Uuids == 1..MaxUuid
\* The built-in preset default_preset_for_game returns.
DefaultUuid == 1
Contents == {"a", "b"}
Responses == {"Yes", "No", "Cancel"}
\* The custom preset the registry holds at start.
CustomUuid == 2

VARIABLES
    \* preset side
    presets,                        \* preset_manager: uuid -> registry entry
    current,                        \* create_preset_tree: uuid of the selected preset, or None
    selected_preset_uuid,           \* Options.selected_preset_uuid_for(game)
    _has_set_from_last_selected,
    _preset_menu,                   \* PresetMenu: preset, visibility, enabled actions
    op_log,                         \* what the last menu action acted on
    last_dialog,                    \* the last message box shown and the answer given
    \* generation side
    is_preview_mode,
    num_players_spin_box,
    create_generate_button,         \* enabled flags of the three triggers
    create_generate_race_button,
    create_generate_no_retry_button,
    background_thread,              \* BackgroundTaskMixin: TRUE while a task runs
    pc,                             \* position of the worker inside work()
    run,                            \* the request of the run in flight
    attempts,                       \* results of the resolver invocations of generate_layout
    outcome,                        \* how generate_layout ended: "layout", "GenerationFailure"
    events,                         \* what work() did so far, in program order
    \* history side
    now,                            \* datetime.datetime.now(), in clock ticks
    history_dir,                    \* the files of options.game_history_path
    \* customize side
    _logic_settings_window,         \* the window id of the CustomizePresetDialog, or None
    dialogs                         \* the _on_customize_preset calls awaiting their dialog

presetVars == <<presets, current, selected_preset_uuid, _has_set_from_last_selected,
                _preset_menu, op_log, last_dialog>>
buttonVars == <<create_generate_button, create_generate_race_button,
                create_generate_no_retry_button>>
runVars == <<background_thread, pc, run, attempts, outcome, events>>
historyVars == <<now, history_dir>>
dialogVars == <<_logic_settings_window, dialogs>>
vars == <<presetVars, buttonVars, runVars, is_preview_mode, num_players_spin_box,
          historyVars, dialogVars>>

\* ------------------------------------------------------------ preset model
\* A VersionedPreset: uuid, base_preset_uuid (None for a built-in preset),
\* whether get_preset() succeeds, and its configuration.
VersionedPreset(u, base, valid, data) ==
    [uuid |-> u, base_preset_uuid |-> base, valid |-> valid, data |-> data]

NoPreset == VersionedPreset(None, None, FALSE, "none")

\* The preset files import_preset_file can be handed: exported custom
\* presets, some of which no longer validate.
Files == { VersionedPreset(u, DefaultUuid, v, d) :
             u \in Uuids, v \in BOOLEAN, d \in Contents }

\* preset_manager.preset_for_uuid: the registered preset, or None.
preset_for_uuid(u) ==
    IF u \in Uuids THEN presets[u] ELSE NoPreset

\* Whether the registry holds a preset of this uuid.
Registered(u) == preset_for_uuid(u).uuid # None

\* preset_manager.default_preset_for_game: never fails, the built-in default.
default_preset_for_game == VersionedPreset(DefaultUuid, None, TRUE, "a")

\* preset_manager.add_new_preset: inserts or overwrites by UUID.
add_new_preset(reg, preset) == [reg EXCEPT ![preset.uuid] = preset]

\* preset_manager.delete_preset: removes the entry.
delete_preset(reg, preset) ==
    IF preset.uuid \in Uuids THEN [reg EXCEPT ![preset.uuid] = NoPreset] ELSE reg

\* create_preset_tree.current_preset_data / _current_preset_data.
current_preset_data == preset_for_uuid(current)

\* create_preset_tree.update_items: the tree shows the registry; a selected
\* item whose preset is gone is no longer selected.
update_items(reg, sel) ==
    IF sel \in Uuids /\ reg[sel].uuid # None THEN sel ELSE None

\* on_preset_changed: can_generate, the value both setEnabled calls receive.
can_generate(preset) ==
    IF preset.uuid = None THEN FALSE ELSE preset.valid

\* on_preset_changed(preset): the generate and race buttons follow can_generate.
on_preset_changed(preset) ==
    /\ create_generate_button' = can_generate(preset)
    /\ create_generate_race_button' = can_generate(preset)
    /\ UNCHANGED create_generate_no_retry_button

\* Mutant of _on_select_preset: the uuid is not stored in Options.
_on_select_preset_NoStore(preset) ==
    /\ on_preset_changed(preset)
    /\ UNCHANGED selected_preset_uuid

\* _on_select_preset with the tree's selection already at `preset`.
_on_select_preset(preset) ==
    /\ on_preset_changed(preset)
    /\ selected_preset_uuid' =
         IF preset.uuid # None THEN preset.uuid ELSE selected_preset_uuid

\* create_preset_tree.select_preset(preset) on a tree whose selection is sel:
\* the selection moves to the preset's item; when that changes the selection,
\* itemSelectionChanged runs _on_select_preset.  opt is the uuid Options holds
\* when the call is made.
select_preset(reg, sel, preset, opt) ==
    IF preset.uuid \in Uuids /\ reg[preset.uuid].uuid # None /\ sel # preset.uuid
      THEN /\ current' = preset.uuid
           /\ on_preset_changed(reg[preset.uuid])
           /\ selected_preset_uuid' = preset.uuid
      ELSE /\ current' = sel
           /\ UNCHANGED buttonVars
           /\ selected_preset_uuid' = opt

\* The user selects item u of the tree (u = None: the selection is cleared);
\* itemSelectionChanged runs _on_select_preset.
SelectItem(u) ==
    /\ u # current
    /\ (u = None \/ Registered(u))
    /\ current' = u
    /\ _on_select_preset(preset_for_uuid(u))
    /\ UNCHANGED <<presets, _has_set_from_last_selected, _preset_menu, op_log, last_dialog>>
    /\ UNCHANGED <<runVars, is_preview_mode, num_players_spin_box, historyVars, dialogVars>>

\* _add_new_preset(preset): store the uuid in Options, add to the registry,
\* refresh the tree and select the preset.
_add_new_preset(preset) ==
    LET reg == add_new_preset(presets, preset)
    IN  /\ presets' = reg
        /\ select_preset(reg, update_items(reg, current), preset, preset.uuid)

\* ------------------------------------------------------------ context menu
\* PresetMenu.set_preset(preset): remember the preset and enable the actions.
set_preset(preset) ==
    [preset |-> preset,
     visible |-> FALSE,
     action_delete |-> (preset.uuid # None /\ preset.base_preset_uuid # None),
     action_export |-> (preset.uuid # None /\ preset.base_preset_uuid # None),
     action_customize |-> (preset.uuid # None),
     action_duplicate |-> (preset.uuid # None)]

\* _on_tree_context_menu(pos): item is the uuid of the preset item at pos, or
\* None when there is no preset item there; the menu is then shown (exec_).
_on_tree_context_menu(item) ==
    /\ ~_preset_menu.visible
    /\ (item = None \/ Registered(item))
    /\ _preset_menu' = [set_preset(preset_for_uuid(item)) EXCEPT !.visible = TRUE]
    /\ UNCHANGED <<presets, current, selected_preset_uuid, _has_set_from_last_selected,
                   op_log, last_dialog>>
    /\ UNCHANGED <<buttonVars, runVars, is_preview_mode, num_players_spin_box, historyVars, dialogVars>>

\* The menu is closed without an action being chosen.
CloseMenu ==
    /\ _preset_menu.visible
    /\ _preset_menu' = [_preset_menu EXCEPT !.visible = FALSE]
    /\ UNCHANGED <<presets, current, selected_preset_uuid, _has_set_from_last_selected,
                   op_log, last_dialog>>
    /\ UNCHANGED <<buttonVars, runVars, is_preview_mode, num_players_spin_box, historyVars, dialogVars>>

\* What a handler acted on: the operation, the preset it was applied to and
\* the preset the menu was opened for.
Log(op, preset, origin) ==
    [op |-> op, uuid |-> preset.uuid, base_preset_uuid |-> preset.base_preset_uuid,
     origin |-> origin]

\* The preset _on_delete_preset hands to delete_preset.
DeleteTarget == current_preset_data

\* _on_delete_preset, run by action_delete.triggered: delete the tree's
\* current preset, refresh the tree, then _on_select_preset.
_on_delete_preset ==
    /\ _preset_menu.visible /\ _preset_menu.action_delete
    /\ _preset_menu' = [_preset_menu EXCEPT !.visible = FALSE]
    /\ IF DeleteTarget.uuid = None
         THEN \* delete_preset(None) raises
              /\ op_log' = Log("delete_failed", DeleteTarget, _preset_menu.preset.uuid)
              /\ UNCHANGED <<presets, current, selected_preset_uuid, buttonVars>>
         ELSE LET reg == delete_preset(presets, DeleteTarget)
              IN  /\ presets' = reg
                  /\ current' = update_items(reg, current)
                  /\ _on_select_preset(
                         IF update_items(reg, current) = None THEN NoPreset
                         ELSE reg[update_items(reg, current)])
                  /\ op_log' = Log("delete", DeleteTarget, _preset_menu.preset.uuid)
    /\ UNCHANGED <<_has_set_from_last_selected, last_dialog>>
    /\ UNCHANGED <<runVars, is_preview_mode, num_players_spin_box, historyVars, dialogVars>>

\* The preset _on_export_preset saves.
ExportTarget == current_preset_data

\* _on_export_preset, run by action_export.triggered: ask for a path
\* (chosen = FALSE: the file dialog was cancelled) and save the tree's current
\* preset there.
_on_export_preset(chosen) ==
    /\ _preset_menu.visible /\ _preset_menu.action_export
    /\ _preset_menu' = [_preset_menu EXCEPT !.visible = FALSE]
    /\ IF ExportTarget.uuid = None
         THEN \* None.slug_name raises
              op_log' = Log("export_failed", ExportTarget, _preset_menu.preset.uuid)
         ELSE op_log' = Log(IF chosen THEN "export" ELSE "export_cancelled",
                            ExportTarget, _preset_menu.preset.uuid)
    /\ UNCHANGED <<presets, current, selected_preset_uuid, _has_set_from_last_selected,
                   last_dialog>>
    /\ UNCHANGED <<buttonVars, runVars, is_preview_mode, num_players_spin_box, historyVars, dialogVars>>

\* ------------------------------------------------------------------ import
\* Mutant of ImportAccepted: the InvalidPreset check is skipped.
ImportAcceptedAlways(preset) == TRUE

\* import_preset_file, the try block: TRUE when preset.get_preset() does not
\* raise InvalidPreset.
ImportAccepted(preset) == preset.valid

\* Mutant of ConflictPreset: the No branch keeps the file's uuid.
ConflictPresetKeepsUuid(preset, response, fresh) == preset

\* import_preset_file, the conflict branch: the preset handed to
\* _add_new_preset when a preset of the same uuid exists and the user answers
\* Yes or No.  fresh is the value uuid.uuid4() returns.
ConflictPreset(preset, response, fresh) ==
    IF response = "No"
      THEN VersionedPreset(fresh, preset.base_preset_uuid, preset.valid, preset.data)
      ELSE preset

\* The uuids the editors of the open customize dialogs hold.
EditorUuids == { d.editor.uuid : d \in dialogs }

\* uuid.uuid4(): a uuid no preset has, registered or being edited.
FreshUuids(preset) ==
    { u \in Uuids : presets[u].uuid = None /\ u # preset.uuid /\ u \notin EditorUuids }

\* A message box and the button it was closed with.
Dialog(title, response) == [title |-> title, response |-> response]

\* import_preset_file(path): file is the preset read from the path, response
\* the user's answer to the "Preset ID conflict" box, fresh the uuid4 drawn.
import_preset_file(file, response, fresh) ==
    /\ IF ~ImportAccepted(file)
         THEN /\ last_dialog' = Dialog("Error loading preset", "Ok")
              /\ UNCHANGED <<presets, current, selected_preset_uuid, buttonVars>>
         ELSE IF Registered(file.uuid)
           THEN /\ last_dialog' = Dialog("Preset ID conflict", response)
                /\ IF response = "Cancel"
                     THEN UNCHANGED <<presets, current, selected_preset_uuid, buttonVars>>
                     ELSE _add_new_preset(ConflictPreset(file, response, fresh))
           ELSE /\ _add_new_preset(file)
                /\ UNCHANGED last_dialog
    /\ UNCHANGED <<_has_set_from_last_selected, _preset_menu, op_log>>
    /\ UNCHANGED <<runVars, is_preview_mode, num_players_spin_box, historyVars, dialogVars>>

\* The answers the conflict box can be given; it is shown for a valid preset
\* whose uuid is registered, and no answer exists otherwise.
Answers(file) ==
    IF file.valid /\ Registered(file.uuid) THEN Responses ELSE {"none"}

\* The uuids uuid4() can return; it is called after the answer No only.
Draws(file, response) ==
    IF response = "No" THEN FreshUuids(file) ELSE {None}

\* _on_import_preset / import_preset_file over every file, answer and uuid4.
ImportPreset ==
    \E file \in Files :
        \E response \in Answers(file) :
            \E fresh \in Draws(file, response) :
                import_preset_file(file, response, fresh)

\* on_options_changed(options): the first call selects the last selected
\* preset, or the default one; later calls do nothing.
on_options_changed ==
    /\ IF ~_has_set_from_last_selected
         THEN /\ _has_set_from_last_selected' = TRUE
              /\ select_preset(presets, current,
                               IF Registered(selected_preset_uuid)
                                 THEN preset_for_uuid(selected_preset_uuid)
                                 ELSE default_preset_for_game,
                               selected_preset_uuid)
         ELSE UNCHANGED <<_has_set_from_last_selected, current, selected_preset_uuid,
                          buttonVars>>
    /\ UNCHANGED <<presets, _preset_menu, op_log, last_dialog>>
    /\ UNCHANGED <<runVars, is_preview_mode, num_players_spin_box, historyVars, dialogVars>>

\* ---------------------------------------------------- duplicate, customize
\* Preset.fork(): a copy of the preset under a new uuid, based on the preset
\* it was forked from.  fresh is the value uuid.uuid4() returns.
fork(preset, fresh) == VersionedPreset(fresh, preset.uuid, preset.valid, preset.data)

\* Whether preset.get_preset() returns: there is a preset and it validates.
get_preset_returns(preset) == preset.uuid # None /\ preset.valid

\* The uuids uuid4() can return inside fork(); fork() is reached only when
\* get_preset() returned.
ForkDraws(preset) ==
    IF get_preset_returns(preset) THEN FreshUuids(preset) ELSE {None}

\* _on_duplicate_preset, run by action_duplicate.triggered: fork the tree's
\* current preset and add the fork.
_on_duplicate_preset(fresh) ==
    /\ _preset_menu.visible /\ _preset_menu.action_duplicate
    /\ _preset_menu' = [_preset_menu EXCEPT !.visible = FALSE]
    /\ LET old_preset == current_preset_data
       IN  IF ~get_preset_returns(old_preset)
             THEN \* None.get_preset() raises, or get_preset() raises InvalidPreset
                  /\ op_log' = Log("duplicate_failed", old_preset, _preset_menu.preset.uuid)
                  /\ UNCHANGED <<presets, current, selected_preset_uuid, buttonVars>>
             ELSE /\ _add_new_preset(fork(old_preset, fresh))
                  /\ op_log' = Log("duplicate", old_preset, _preset_menu.preset.uuid)
    /\ UNCHANGED <<_has_set_from_last_selected, last_dialog>>
    /\ UNCHANGED <<runVars, is_preview_mode, num_players_spin_box, historyVars, dialogVars>>

\* Window ids a CustomizePresetDialog can get; more dialogs are not opened.
MaxDialogs == 2

\* A CustomizePresetDialog under execute_dialog: its window and the preset
\* its PresetEditor was built from.
CustomizePresetDialog(window, editor) == [window |-> window, editor |-> editor]

\* The window ids no open dialog has.
FreeWindows == { w \in 1..MaxDialogs : \A d \in dialogs : d.window # w }

\* Mutant of DialogOpen: the check of _logic_settings_window is skipped.
DialogOpenNever == FALSE

\* _on_customize_preset, the first test: self._logic_settings_window is not None.
DialogOpen == _logic_settings_window # None

\* The preset the PresetEditor is built from: a built-in preset is forked.
EditorPreset(old_preset, fresh) ==
    IF old_preset.base_preset_uuid = None THEN fork(old_preset, fresh) ELSE old_preset

\* The uuids uuid4() can return in _on_customize_preset: fork() is called for
\* a built-in preset when no dialog is open.
CustomizeDraws ==
    IF ~DialogOpen /\ current_preset_data.base_preset_uuid = None
      THEN ForkDraws(current_preset_data)
      ELSE {None}

\* _on_customize_preset, run by action_customize.triggered, up to the await:
\* raise the open dialog, or build an editor and a dialog for the tree's
\* current preset and show it.
_on_customize_preset(fresh) ==
    /\ _preset_menu.visible /\ _preset_menu.action_customize
    /\ _preset_menu' = [_preset_menu EXCEPT !.visible = FALSE]
    /\ LET old_preset == current_preset_data
       IN  IF DialogOpen
             THEN \* self._logic_settings_window.raise_()
                  /\ op_log' = Log("customize_raise", old_preset, _preset_menu.preset.uuid)
                  /\ UNCHANGED dialogVars
             ELSE IF ~get_preset_returns(old_preset)
               THEN /\ op_log' = Log("customize_failed", old_preset, _preset_menu.preset.uuid)
                    /\ UNCHANGED dialogVars
               ELSE /\ FreeWindows # {}
                    /\ LET window == CHOOSE w \in FreeWindows : \A v \in FreeWindows : w <= v
                       IN  /\ _logic_settings_window' = window
                           /\ dialogs' = dialogs \cup
                                 {CustomizePresetDialog(window, EditorPreset(old_preset, fresh))}
                    /\ op_log' = Log("customize_open", old_preset, _preset_menu.preset.uuid)
    /\ UNCHANGED <<presets, current, selected_preset_uuid, buttonVars,
                   _has_set_from_last_selected, last_dialog>>
    /\ UNCHANGED <<runVars, is_preview_mode, num_players_spin_box, historyVars>>

\* What execute_dialog returns.
DialogResults == {"Accepted", "Rejected"}

\* editor.create_custom_preset_with(): the edited configuration under the
\* uuid and base the editor was built with.
create_custom_preset_with(editor, data) ==
    VersionedPreset(editor.uuid, editor.base_preset_uuid, TRUE, data)

\* The configurations the user can leave the dialog with.
Edits(result) == IF result = "Accepted" THEN Contents ELSE {"none"}

\* _on_customize_preset after the await: dialog d was closed with result,
\* the editor then holding the configuration data.
_on_customize_preset_result(d, result, data) ==
    /\ d \in dialogs
    /\ dialogs' = dialogs \ {d}
    /\ _logic_settings_window' = None
    /\ IF result = "Accepted"
         THEN /\ _add_new_preset(create_custom_preset_with(d.editor, data))
              /\ op_log' = Log("customize_accepted", d.editor, d.window)
         ELSE /\ op_log' = Log("customize_rejected", d.editor, d.window)
              /\ UNCHANGED <<presets, current, selected_preset_uuid, buttonVars>>
    /\ UNCHANGED <<_has_set_from_last_selected, _preset_menu, last_dialog>>
    /\ UNCHANGED <<runVars, is_preview_mode, num_players_spin_box, historyVars>>

\* -------------------------------------------------------------- generation
Buttons == {"generate", "no_retry", "race"}

\* retries = None of generate_new_layout's signature.
RetriesNone == -1

\* setup_ui, the clicked connections: the spoiler argument each button binds.
ButtonSpoiler(button) == button # "race"

\* Mutant of ButtonRetries: the no-retry button binds no retries argument.
ButtonRetriesDefault(button) == RetriesNone

\* setup_ui, the clicked connections: the retries argument each button binds.
ButtonRetries(button) == IF button = "no_retry" THEN 0 ELSE RetriesNone

\* Whether a click on the button reaches its slot: the button is enabled, and
\* the no-retry button is shown in preview mode only.
Clickable(button) ==
    CASE button = "generate" -> create_generate_button
      [] button = "race"     -> create_generate_race_button
      [] button = "no_retry" -> create_generate_no_retry_button /\ is_preview_mode

\* Mutant of widget_preset: no fallback to the game's default preset.
widget_preset_NoFallback == current_preset_data

\* The preset property: the tree's current preset, else the game's default.
widget_preset ==
    IF current_preset_data.uuid = None THEN default_preset_for_game
                                       ELSE current_preset_data

\* random.randint(a, b): any integer of a..b, both ends included.
randint(a, b) == a..b

\* The seed_number argument of generate_new_layout: random.randint(0, 2 ** 31).
SeedDraws == randint(0, 2^SeedBits)

\* [x] * n
Repeat(x, n) == [i \in 1..n |-> x]

\* GeneratorParameters(seed_number=..., spoiler=..., presets=...)
GeneratorParameters(seed_number, spoiler, preset_list) ==
    [seed_number |-> seed_number, spoiler |-> spoiler, presets |-> preset_list]

\* Mutant of NewLayoutParameters: the preset list is not multiplied.
NewLayoutParametersSingle(seed, spoiler, preset, num_players) ==
    GeneratorParameters(seed, spoiler, <<preset.data>>)

\* The parameters generate_new_layout builds for a drawn seed.
NewLayoutParameters(seed, spoiler, preset, num_players) ==
    GeneratorParameters(seed, spoiler, Repeat(preset.data, num_players))

NoRun == [button |-> "none", num_players |-> 0, preset |-> None,
          parameters |-> GeneratorParameters(0, FALSE, <<>>), retries |-> RetriesNone]

\* enable_buttons_with_background_tasks(value), the slot of
\* background_tasks_button_lock_signal.
enable_buttons_with_background_tasks(value) ==
    /\ create_generate_button' = value
    /\ create_generate_race_button' = value
    /\ UNCHANGED create_generate_no_retry_button

\* generate_layout_from_permalink: hand work() to run_in_background_thread.
\* BackgroundTaskMixin refuses a second task while one runs (a caller error);
\* otherwise it emits the lock signal with False and starts the worker.
generate_layout_from_permalink(request) ==
    IF background_thread
      THEN UNCHANGED <<runVars, buttonVars>>
      ELSE /\ background_thread' = TRUE
           /\ enable_buttons_with_background_tasks(FALSE)
           /\ pc' = "generate_layout"
           /\ run' = request
           /\ attempts' = <<>>
           /\ outcome' = "none"
           /\ events' = <<>>

\* generate_new_layout(spoiler, retries), run by a click on `button`.
generate_new_layout(button) ==
    /\ Clickable(button)
    /\ IF ~widget_preset.valid
         THEN \* preset.get_preset() raises InvalidPreset
              UNCHANGED <<runVars, buttonVars>>
         ELSE \E seed \in SeedDraws :
                generate_layout_from_permalink(
                    [button |-> button,
                     num_players |-> num_players_spin_box,
                     preset |-> widget_preset.uuid,
                     parameters |-> NewLayoutParameters(seed, ButtonSpoiler(button),
                                                        widget_preset, num_players_spin_box),
                     retries |-> ButtonRetries(button)])
    /\ UNCHANGED <<presetVars, is_preview_mode, num_players_spin_box, historyVars, dialogVars>>

\* The user changes num_players_spin_box, which is shown in preview mode only.
SetPlayers(n) ==
    /\ is_preview_mode
    /\ n # num_players_spin_box
    /\ num_players_spin_box' = n
    /\ UNCHANGED <<presetVars, buttonVars, runVars, is_preview_mode, historyVars, dialogVars>>

\* ------------------------------------------------------------------ worker
Event(ev, val) == [ev |-> ev, val |-> val]

\* The progress values reported so far, oldest first.
RECURSIVE ProgressOf(_)
ProgressOf(log) ==
    IF log = <<>> THEN <<>>
    ELSE IF Head(log).ev = "progress"
           THEN <<Head(log).val>> \o ProgressOf(Tail(log))
           ELSE ProgressOf(Tail(log))

\* How often an event occurs in the log.
RECURSIVE Count(_, _)
Count(log, ev) ==
    IF log = <<>> THEN 0
    ELSE (IF Head(log).ev = ev THEN 1 ELSE 0) + Count(Tail(log), ev)

LastFraction(log) ==
    IF ProgressOf(log) = <<>> THEN 0 ELSE ProgressOf(log)[Len(ProgressOf(log))]

workerFrame == <<presetVars, buttonVars, is_preview_mode, num_players_spin_box, historyVars, dialogVars>>

\* generate_layout: the number of retries after the first attempt.
EffectiveRetries(retries) ==
    IF retries = RetriesNone THEN DefaultRetries ELSE retries

\* generate_layout reports progress: a fraction below 1, never smaller than
\* the one before.
GenerateLayoutProgress(fraction) ==
    /\ pc = "generate_layout"
    /\ Len(ProgressOf(events)) < MaxUpdates
    /\ fraction >= LastFraction(events)
    /\ events' = Append(events, Event("progress", fraction))
    /\ UNCHANGED <<background_thread, pc, run, attempts, outcome>>
    /\ UNCHANGED workerFrame

\* generate_layout invokes the resolver once more; it returns the layout on
\* success and raises GenerationFailure when the retries are used up.
ResolverAttempt(success) ==
    /\ pc = "generate_layout"
    /\ attempts' = Append(attempts, success)
    /\ pc' = IF success THEN "returned"
             ELSE IF Len(attempts) + 1 > EffectiveRetries(run.retries) THEN "raised"
             ELSE "generate_layout"
    /\ outcome' = IF success THEN "layout"
                  ELSE IF Len(attempts) + 1 > EffectiveRetries(run.retries)
                    THEN "GenerationFailure"
                  ELSE "none"
    /\ UNCHANGED <<background_thread, run, events>>
    /\ UNCHANGED workerFrame

\* The value work() reports after generate_layout returned.
SuccessValue == FracSteps

\* Mutant of FailureValue: the failure branch reports 1.
FailureValueAsSuccess == FracSteps

\* The value work() reports after GenerationFailure: -1.
FailureValue == 0 - FracSteps

\* work(), after generate_layout returned: progress_update("Success! ...", 1).
WorkReportSuccess ==
    /\ pc = "returned"
    /\ events' = Append(events, Event("progress", SuccessValue))
    /\ pc' = "persist"
    /\ UNCHANGED <<background_thread, run, attempts, outcome>>
    /\ UNCHANGED workerFrame

\* Clock ticks per second: strftime("%S") resolves whole seconds only.
TicksPerSecond == 2

\* datetime.datetime.now().strftime("%Y-%m-%d-%H-%M-%S"): the time cut to
\* whole seconds.
date_format(t) == t \div TicksPerSecond

\* The short names of the widget's game; every preset of a request is of
\* that game.
ShortName == "game"

\* The number of distinct shareable word hashes.
HashWords == 2

\* LayoutDescription.shareable_word_hash: a short fingerprint derived from
\* the layout, the same for the same permalink.
shareable_word_hash(parameters) == parameters.seed_number % HashWords

\* The LayoutDescription generate_layout returns for the parameters, as far
\* as persist_layout reads it; the layout is identified by its hash.
LayoutDescription(parameters) ==
    [all_games |-> ShortName,
     shareable_word_hash |-> shareable_word_hash(parameters)]

\* persist_layout, the file_path built from date, games and word hash.
file_path(t, description) ==
    [date_format |-> date_format(t),
     games |-> description.all_games,
     shareable_word_hash |-> description.shareable_word_hash,
     file_extension |-> "rdvgame"]

\* The paths of the files a directory holds.
Paths(dir) == { f.path : f \in dir }

\* description.save_to_file(file_path): the file at the path then holds the
\* description, whatever it held before.
save_to_file(dir, path, description) ==
    { f \in dir : f.path # path } \cup {[path |-> path, description |-> description]}

\* persist_layout(history_dir, description) called at time t.
persist_layout(dir, t, description) ==
    save_to_file(dir, file_path(t, description), description)

\* work(): persist_layout(history_path, layout).  It writes the history file,
\* or raises (OSError), which work() does not catch.
WorkPersistLayout(written) ==
    /\ pc = "persist"
    /\ events' = Append(events, Event(IF written THEN "persist_layout" ELSE "persist_raised", 0))
    /\ pc' = IF written THEN "open" ELSE "finished"
    /\ history_dir' = IF written
                        THEN persist_layout(history_dir, now, LayoutDescription(run.parameters))
                        ELSE history_dir
    /\ UNCHANGED <<background_thread, run, attempts, outcome, now>>
    /\ UNCHANGED <<presetVars, buttonVars, is_preview_mode, num_players_spin_box, dialogVars>>

\* Time passes.
Tick ==
    /\ now < MaxClock
    /\ now' = now + 1
    /\ UNCHANGED <<presetVars, buttonVars, runVars, is_preview_mode, num_players_spin_box,
                   history_dir, dialogVars>>

\* work(): self._window_manager.open_game_details(layout).
WorkOpenGameDetails ==
    /\ pc = "open"
    /\ events' = Append(events, Event("open_game_details", 0))
    /\ pc' = "finished"
    /\ UNCHANGED <<background_thread, run, attempts, outcome>>
    /\ UNCHANGED workerFrame

\* Mutant of WorkHandleFailure: the failure handler is not called.
WorkHandleFailureSkipped ==
    /\ pc = "raised"
    /\ pc' = "report_failure"
    /\ UNCHANGED <<background_thread, run, attempts, outcome, events>>
    /\ UNCHANGED workerFrame

\* work(), except GenerationFailure: failure_handler.handle_failure(...).
WorkHandleFailure ==
    /\ pc = "raised"
    /\ events' = Append(events, Event("handle_failure", 0))
    /\ pc' = "report_failure"
    /\ UNCHANGED <<background_thread, run, attempts, outcome>>
    /\ UNCHANGED workerFrame

\* work(), except GenerationFailure: progress_update("Generation Failure...", -1).
WorkReportFailure ==
    /\ pc = "report_failure"
    /\ events' = Append(events, Event("progress", FailureValue))
    /\ pc' = "finished"
    /\ UNCHANGED <<background_thread, run, attempts, outcome>>
    /\ UNCHANGED workerFrame

\* work() is over: BackgroundTaskMixin drops the thread and emits
\* background_tasks_button_lock_signal(True).
WorkerDone ==
    /\ pc = "finished"
    /\ background_thread' = FALSE
    /\ pc' = "idle"
    /\ run' = NoRun
    /\ attempts' = <<>>
    /\ outcome' = "none"
    /\ events' = <<>>
    /\ enable_buttons_with_background_tasks(TRUE)
    /\ UNCHANGED <<presetVars, is_preview_mode, num_players_spin_box, historyVars, dialogVars>>

\* ----------------------------------------------------------- specification
\* The registry as loaded at start: the built-in default and a custom preset
\* whose file does not validate.
InitialPresets ==
    [u \in Uuids |->
        CASE u = DefaultUuid -> default_preset_for_game
          [] u = CustomUuid -> VersionedPreset(CustomUuid, DefaultUuid, FALSE, "b")
          [] OTHER -> NoPreset]

Init ==
    /\ presets = InitialPresets
    /\ current = None
    /\ selected_preset_uuid \in {None, CustomUuid}
    /\ _has_set_from_last_selected = FALSE
    /\ _preset_menu = set_preset(NoPreset)
    /\ op_log = Log("none", NoPreset, None)
    /\ last_dialog = Dialog("none", "none")
    /\ is_preview_mode \in BOOLEAN
    /\ num_players_spin_box = 1
    /\ create_generate_button = TRUE
    /\ create_generate_race_button = TRUE
    /\ create_generate_no_retry_button = TRUE
    /\ background_thread = FALSE
    /\ pc = "idle"
    /\ run = NoRun
    /\ attempts = <<>>
    /\ outcome = "none"
    /\ events = <<>>
    /\ now = 0
    /\ history_dir = {}
    /\ _logic_settings_window = None
    /\ dialogs = {}

\* The tree, its context menu and the menu's actions.
NextMenu ==
    \/ \E u \in {None} \cup Uuids : SelectItem(u)
    \/ \E item \in {None} \cup Uuids : _on_tree_context_menu(item)
    \/ CloseMenu
    \/ _on_delete_preset
    \/ \E chosen \in BOOLEAN : _on_export_preset(chosen)
    \/ on_options_changed

\* The tree and preset import.
NextImport ==
    \/ \E u \in {None} \cup Uuids : SelectItem(u)
    \/ ImportPreset
    \/ on_options_changed

\* The generation handlers and the worker.
NextRun ==
    \/ \E u \in {None} \cup Uuids : SelectItem(u)
    \/ \E n \in 1..MaxPlayers : SetPlayers(n)
    \/ \E button \in Buttons : generate_new_layout(button)
    \/ \E fraction \in 0..(FracSteps - 1) : GenerateLayoutProgress(fraction)
    \/ \E success \in BOOLEAN : ResolverAttempt(success)
    \/ WorkReportSuccess
    \/ \E written \in BOOLEAN : WorkPersistLayout(written)
    \/ WorkOpenGameDetails
    \/ WorkHandleFailure
    \/ WorkReportFailure
    \/ WorkerDone

\* The tree, its menu, and the duplicate and customize actions.
NextEdit ==
    \/ \E u \in {None} \cup Uuids : SelectItem(u)
    \/ \E item \in {None} \cup Uuids : _on_tree_context_menu(item)
    \/ \E fresh \in ForkDraws(current_preset_data) : _on_duplicate_preset(fresh)
    \/ \E fresh \in CustomizeDraws : _on_customize_preset(fresh)
    \/ \E d \in dialogs : \E result \in DialogResults : \E data \in Edits(result) :
          _on_customize_preset_result(d, result, data)

\* Successful runs of the generate button while time passes.
NextHistory ==
    \/ generate_new_layout("generate")
    \/ ResolverAttempt(TRUE)
    \/ WorkReportSuccess
    \/ WorkPersistLayout(TRUE)
    \/ WorkOpenGameDetails
    \/ WorkerDone
    \/ Tick

Next == NextMenu \/ NextImport \/ NextRun \/ NextHistory \/ NextEdit

SpecMenu == Init /\ [][NextMenu]_vars
SpecImport == Init /\ [][NextImport]_vars
SpecRun == Init /\ [][NextRun]_vars
SpecHistory == Init /\ [][NextHistory]_vars
SpecEdit == Init /\ [][NextEdit]_vars
Spec == Init /\ [][Next]_vars

\* ------------------------------------------------------------------ claims
Progress == ProgressOf(events)
Terminal(value) == value = SuccessValue \/ value = FailureValue

\* Position of the first occurrence of an event in the log, 0 when absent.
FirstIndex(log, ev) ==
    IF \E i \in 1..Len(log) : log[i].ev = ev
      THEN CHOOSE i \in 1..Len(log) :
             log[i].ev = ev /\ \A j \in 1..(i - 1) : log[j].ev # ev
      ELSE 0

\* Position of the terminal progress value in the log, 0 when none yet.
TerminalIndex(log) ==
    IF \E i \in 1..Len(log) : log[i].ev = "progress" /\ Terminal(log[i].val)
      THEN CHOOSE i \in 1..Len(log) : log[i].ev = "progress" /\ Terminal(log[i].val)
      ELSE 0

\* C1: while a generation run is in flight no generation trigger of the
\* widget can be clicked, so no second run can be started.
C1_NoTriggerWhileRunning ==
    background_thread => \A button \in Buttons : ~Clickable(button)

\* C2: the seed_number of the parameters generate_new_layout builds lies in
\* the permalink's seed domain [0, 2^SeedBits).
C2_SeedInDomain ==
    background_thread =>
        /\ 0 <= run.parameters.seed_number
        /\ run.parameters.seed_number <= 2^SeedBits - 1

C4_InvalidImportRejected ==
    [][\A file \in {f \in Files : ~f.valid} :
        \A response \in Answers(file) : \A fresh \in Draws(file, response) :
          import_preset_file(file, response, fresh)
              => UNCHANGED <<presets, selected_preset_uuid, current>>]_vars

C4_Witness ==
    /\ last_dialog.title = "Error loading preset"
    /\ current # None
    /\ \E u \in Uuids : u # DefaultUuid /\ Registered(u) /\ presets[u].valid

\* C5: importing a valid preset whose uuid is registered replaces the entry
\* only on Yes; Cancel changes nothing; No keeps every registered entry and
\* adds the imported preset under a uuid that was not registered.
C5_ConflictResolution ==
    [][\A file \in {f \in Files : f.valid /\ Registered(f.uuid)} :
        \A response \in Answers(file) : \A fresh \in Draws(file, response) :
          import_preset_file(file, response, fresh)
              => /\ response = "Cancel" =>
                        UNCHANGED <<presets, selected_preset_uuid, current>>
                 /\ response = "No" =>
                        /\ \A u \in Uuids : Registered(u) => presets'[u] = presets[u]
                        /\ \E u \in Uuids :
                              /\ ~Registered(u)
                              /\ presets'[u] = VersionedPreset(u, file.base_preset_uuid,
                                                               file.valid, file.data)
                              /\ current' = u
                              /\ \A v \in Uuids \ {u} : presets'[v] = presets[v]
                 /\ response = "Yes" =>
                        presets' = [presets EXCEPT ![file.uuid] = file]
                 /\ \A u \in Uuids :
                        (Registered(u) /\ presets'[u] # presets[u]) => response = "Yes"]_vars

C5_Witness ==
    /\ last_dialog = Dialog("Preset ID conflict", "No")
    /\ current = MaxUuid
    /\ Registered(MaxUuid) /\ Registered(DefaultUuid)
    /\ presets[MaxUuid].data = presets[DefaultUuid].data
    /\ presets[DefaultUuid] = default_preset_for_game

\* C6: a built-in preset is never deleted from the registry, and the delete
\* and export actions only act on a preset that is not built-in and is the one
\* the menu was opened for.
C6_BuiltinNeverDeletedOrExported ==
    /\ Registered(DefaultUuid)
    /\ op_log.op \in {"delete", "export"} =>
          /\ op_log.base_preset_uuid # None
          /\ op_log.uuid = op_log.origin

\* C7: when generate_layout raised GenerationFailure, nothing is persisted,
\* no game-details window is opened, and handle_failure is called exactly
\* once, before -1 is reported.
C7_FailureSurfacedOnce ==
    outcome = "GenerationFailure" =>
        /\ Count(events, "persist_layout") = 0
        /\ Count(events, "persist_raised") = 0
        /\ Count(events, "open_game_details") = 0
        /\ Count(events, "handle_failure") <= 1
        /\ pc \in {"report_failure", "finished"} => Count(events, "handle_failure") = 1
        /\ TerminalIndex(events) # 0 =>
              /\ FirstIndex(events, "handle_failure") # 0
              /\ FirstIndex(events, "handle_failure") < TerminalIndex(events)

C7_Witness ==
    /\ pc = "finished"
    /\ outcome = "GenerationFailure"
    /\ Count(events, "handle_failure") = 1
    /\ TerminalIndex(events) = Len(events)

\* C8: the layout is persisted exactly once and before the result is opened;
\* a run that reported success has its layout persisted; when persisting
\* fails the result is not opened.
C8_PersistedBeforeDelivered ==
    /\ Count(events, "persist_layout") <= 1
    /\ FirstIndex(events, "open_game_details") # 0 =>
          /\ FirstIndex(events, "persist_layout") # 0
          /\ FirstIndex(events, "persist_layout") < FirstIndex(events, "open_game_details")
    /\ Count(events, "persist_raised") > 0 => Count(events, "open_game_details") = 0
    /\ (pc = "finished" /\ \E i \in 1..Len(Progress) : Progress[i] = SuccessValue)
          => Count(events, "persist_layout") = 1

C11_PresetNeverAbsent ==
    /\ widget_preset.uuid # None
    /\ current # None =>
          /\ Registered(current)
          /\ widget_preset = presets[current]
    /\ current = None => widget_preset = default_preset_for_game

C11_Witness ==
    /\ op_log.op = "delete"
    /\ current = None
    /\ widget_preset = default_preset_for_game

\* C12: persist_layout only creates new history files: no call writes to a
\* path that already holds a history file, and every file of the history
\* directory is left as it is.
C12_OnlyNewFiles ==
    [][/\ \A f \in history_dir : f \in history_dir'
       /\ WorkPersistLayout(TRUE) =>
             file_path(now, LayoutDescription(run.parameters)) \notin Paths(history_dir)]_vars

\* The step adds exactly one registry entry, under a uuid that was not
\* registered, selects it, and leaves every other entry as it was.
OneNewEntrySelected ==
    \E u \in Uuids :
        /\ ~Registered(u)
        /\ presets'[u].uuid = u
        /\ current' = u
        /\ \A v \in Uuids \ {u} : presets'[v] = presets[v]

\* C13: duplicating a preset, and accepting the customization of a built-in
\* preset, adds exactly one entry under a uuid not registered before, selects
\* it, and leaves the source preset's entry unchanged.
C13_WorksOnFork ==
    [][/\ \A fresh \in ForkDraws(current_preset_data) :
             _on_duplicate_preset(fresh) => OneNewEntrySelected
       /\ \A d \in {e \in dialogs : ~Registered(e.editor.uuid)} : \A data \in Contents :
             _on_customize_preset_result(d, "Accepted", data) =>
                 /\ OneNewEntrySelected
                 /\ presets'[d.editor.uuid].base_preset_uuid = d.editor.base_preset_uuid
                 /\ presets'[d.editor.base_preset_uuid] = presets[d.editor.base_preset_uuid]]_vars

\* C14: at most one customize dialog exists and _logic_settings_window refers
\* to it; a customize trigger while it is open changes neither the dialogs nor
\* the registry; when the dialog closes _logic_settings_window is None again,
\* and the registry gets the edited preset if the dialog was accepted and is
\* left alone if it was rejected.
C14_SingleDialog ==
    [][/\ Cardinality(dialogs') <= 1
       /\ (_logic_settings_window' = None) <=> (dialogs' = {})
       /\ \A d \in dialogs' : d.window = _logic_settings_window'
       /\ \A fresh \in CustomizeDraws :
             (_on_customize_preset(fresh) /\ dialogs # {}) =>
                 UNCHANGED <<dialogs, _logic_settings_window, presets, current,
                             selected_preset_uuid>>
       /\ \A d \in dialogs : \A result \in DialogResults : \A data \in Edits(result) :
             _on_customize_preset_result(d, result, data) =>
                 /\ _logic_settings_window' = None
                 /\ dialogs' = {}
                 /\ result = "Accepted" =>
                       /\ presets'[d.editor.uuid] = create_custom_preset_with(d.editor, data)
                       /\ \A v \in Uuids \ {d.editor.uuid} : presets'[v] = presets[v]
                 /\ result = "Rejected" => presets' = presets]_vars

C14_Witness ==
    /\ op_log.op = "customize_raise"
    /\ Cardinality(dialogs) = 1
    /\ _logic_settings_window # None
    /\ \E d \in dialogs : ~Registered(d.editor.uuid)

\* The tree's current preset is a valid preset.
ValidPresetSelected == current # None /\ Registered(current) /\ presets[current].valid

\* C15: after every on_preset_changed call (the selection changed) and every
\* enable_buttons_with_background_tasks call (a task started or ended) the
\* generate and race buttons can be clicked only if a valid preset is
\* selected, so that generate_new_layout is not run by them with an invalid
\* preset selected.
C15_EnabledOnlyIfValid ==
    [][(current' # current \/ background_thread' # background_thread) =>
           \A button \in {"generate", "race"} :
               Clickable(button)' => ValidPresetSelected']_vars

\* C16: the first on_options_changed call selects the preset whose uuid
\* Options stores if the registry has it, and the game's default preset
\* otherwise; every later call leaves the tree selection as it is; the flag,
\* once set, stays set.
C16_RestoredOnce ==
    [][/\ _has_set_from_last_selected => _has_set_from_last_selected'
       /\ on_options_changed =>
             /\ _has_set_from_last_selected'
             /\ ~_has_set_from_last_selected =>
                   current' = (IF Registered(selected_preset_uuid)
                                 THEN selected_preset_uuid
                                 ELSE default_preset_for_game.uuid)
             /\ _has_set_from_last_selected => current' = current]_vars

\* C17: after a step that moves the selection to a preset or changes the
\* registry with a preset selected, Options stores the uuid of the tree's
\* current preset and the registry has that preset; a preset added or
\* replaced in the registry is the selected one; when the selection becomes
\* empty the stored uuid is left unchanged.
C17_StoredUuidFollowsSelection ==
    [][/\ (current' # None /\ (current' # current \/ presets' # presets)) =>
             /\ selected_preset_uuid' = current'
             /\ Registered(current)'
       /\ \A u \in Uuids :
             (presets'[u] # presets[u] /\ presets'[u].uuid = u) => current' = u
       /\ (current' = None /\ current # None) =>
             selected_preset_uuid' = selected_preset_uuid]_vars

C17_Witness ==
    /\ op_log.op = "customize_accepted"
    /\ current = MaxUuid
    /\ selected_preset_uuid = MaxUuid
    /\ presets[MaxUuid].data # presets[DefaultUuid].data

====
